---------------------------- MODULE Spec2Model ----------------------------
(***************************************************************************)
(* A model of weasel.py: the WeaselSimulator generation engine, its        *)
(* mutation and rotation operators and its similarity metrics.             *)
(*                                                                         *)
(* Strings are sequences of one-character strings.  A fitness is an exact  *)
(* rational <<n, d>> in lowest terms with d > 0; <<0, 0>> stands for a     *)
(* ZeroDivisionError raised while the fitness was computed.  A             *)
(* probability p is written in percent (mutate_chance 0.1 is 10).          *)
(***************************************************************************)
EXTENDS Integers, Sequences, FiniteSets, TLC

(***************************************************************************)
(* Bounds of the model.                                                    *)
(***************************************************************************)
\* generations() counts generations without limit; the model stops starting
\* new generations at MaxGen.
MaxGen == 2
\* num_children is drawn from 0..MaxChildren.
MaxChildren == 2
\* An operator applied alone is given strings of up to MaxLen characters,
MaxLen == 3
\* and rotation amounts from -MaxShift to MaxShift.
MaxShift == 4

(***************************************************************************)
(* Arithmetic helpers.                                                     *)
(***************************************************************************)
Max2(a, b) == IF a >= b THEN a ELSE b

Min2(a, b) == IF a <= b THEN a ELSE b

Abs(n) == IF n < 0 THEN -n ELSE n

RECURSIVE GCD(_, _)
GCD(a, b) == IF b = 0 THEN a ELSE GCD(b, a % b)

\* n / d under "from __future__ import division": a ZeroDivisionError when d = 0.
Rat(n, d) ==
    IF d = 0 THEN <<0, 0>>
    ELSE LET g == GCD(Abs(n), d) IN <<n \div g, d \div g>>

Raised(x) == x[2] = 0

RatAdd(x, y) ==
    IF Raised(x) \/ Raised(y) THEN <<0, 0>>
    ELSE Rat(x[1] * y[2] + y[1] * x[2], x[2] * y[2])

RatSubInt(x, k) == IF Raised(x) THEN <<0, 0>> ELSE Rat(x[1] - k * x[2], x[2])

RatAbs(x) == <<Abs(x[1]), x[2]>>

RatDivInt(x, k) == IF Raised(x) \/ k = 0 THEN <<0, 0>> ELSE Rat(x[1], x[2] * k)

RatLt(x, y) == x[1] * y[2] < y[1] * x[2]

RatLeq(x, y) == x[1] * y[2] <= y[1] * x[2]

One == <<1, 1>>

Zero == <<0, 1>>

(***************************************************************************)
(* levenshtein(s1, s2): the row-by-row dynamic program.                    *)
(***************************************************************************)
\* The inner loop over s2 for one character c1: current_row grows from
\* [i + 1] by one cell per character of s2.
RECURSIVE LevCurrentRow(_, _, _, _)
LevCurrentRow(previous_row, current_row, c1, s2) ==
    LET j == Len(current_row)   \* 1-based index of the next character of s2
    IN IF j > Len(s2) THEN current_row
       ELSE LET insertions == previous_row[j + 1] + 1
                deletions == current_row[j] + 1
                substitutions == previous_row[j] + (IF c1 # s2[j] THEN 1 ELSE 0)
            IN LevCurrentRow(previous_row,
                             Append(current_row,
                                    Min2(insertions, Min2(deletions, substitutions))),
                             c1, s2)

\* The outer loop over s1, from its character number i (1-based).
RECURSIVE LevRows(_, _, _, _)
LevRows(s1, s2, i, previous_row) ==
    IF i > Len(s1) THEN previous_row[Len(previous_row)]
    ELSE LevRows(s1, s2, i + 1, LevCurrentRow(previous_row, <<i>>, s1[i], s2))

RECURSIVE levenshtein(_, _)
levenshtein(s1, s2) ==
    IF Len(s1) < Len(s2) THEN levenshtein(s2, s1)
    ELSE IF s1 = <<>> THEN Len(s2)
    ELSE LevRows(s1, s2, 1, [k \in 1..(Len(s2) + 1) |-> k - 1])

(***************************************************************************)
(* match_to_ratio(matcher, s1, s2, inverse), given matched = matcher(s1,   *)
(* s2): abs(matched / max(len(s1), len(s2)) - inverse).                    *)
(***************************************************************************)
\* match_to_ratio with its inverse flag ignored: every matcher is taken to
\* return a distance.
match_to_ratio_as_distance(matched, s1, s2, inverse) ==
    RatAbs(RatSubInt(Rat(matched, Max2(Len(s1), Len(s2))), 1))

match_to_ratio(matched, s1, s2, inverse) ==
    RatAbs(RatSubInt(Rat(matched, Max2(Len(s1), Len(s2))),
                     IF inverse THEN 1 ELSE 0))

levenshtein_fitness(s1, s2) == match_to_ratio(levenshtein(s1, s2), s1, s2, TRUE)

(***************************************************************************)
(* difflib.SequenceMatcher(None, a, b): find_longest_match picks, among    *)
(* the longest common blocks of a[alo:ahi] and b[blo:bhi], the one that    *)
(* starts earliest in a and, of those, earliest in b;                      *)
(* get_matching_blocks recurses to the left and to the right of it.  (The  *)
(* junk heuristic only applies to strings of 200 characters or more.)      *)
(* Indices are 0-based and half-open as in difflib.                        *)
(***************************************************************************)
BlockMatches(a, b, i, j, k) ==
    \A t \in 0..(k - 1) : a[i + t + 1] = b[j + t + 1]

FindLongestMatch(a, b, alo, ahi, blo, bhi) ==
    LET blocks == {m \in (alo..ahi) \X (blo..bhi) \X (0..(ahi - alo)) :
                     /\ m[1] + m[3] <= ahi
                     /\ m[2] + m[3] <= bhi
                     /\ BlockMatches(a, b, m[1], m[2], m[3])}
        Better(m, n) ==
            \/ m[3] > n[3]
            \/ m[3] = n[3] /\ m[1] < n[1]
            \/ m[3] = n[3] /\ m[1] = n[1] /\ m[2] <= n[2]
    IN IF \A m \in blocks : m[3] = 0 THEN <<alo, blo, 0>>
       ELSE CHOOSE m \in blocks : \A n \in blocks : Better(m, n)

\* sum of the sizes of get_matching_blocks() within a[alo:ahi], b[blo:bhi]
RECURSIVE MatchingBlocksSum(_, _, _, _, _, _)
MatchingBlocksSum(a, b, alo, ahi, blo, bhi) ==
    LET m == FindLongestMatch(a, b, alo, ahi, blo, bhi)
    IN IF m[3] = 0 THEN 0
       ELSE m[3]
            + (IF alo < m[1] /\ blo < m[2]
               THEN MatchingBlocksSum(a, b, alo, m[1], blo, m[2]) ELSE 0)
            + (IF m[1] + m[3] < ahi /\ m[2] + m[3] < bhi
               THEN MatchingBlocksSum(a, b, m[1] + m[3], ahi, m[2] + m[3], bhi)
               ELSE 0)

BlocksMatcher(a, b) == MatchingBlocksSum(a, b, 0, Len(a), 0, Len(b))

\* SequenceMatcher.ratio(): 2.0 * matches / (len(a) + len(b)), 1.0 when both
\* are empty.
sequence_matcher_fitness(s1, s2) ==
    IF Len(s1) + Len(s2) = 0 THEN One
    ELSE Rat(2 * BlocksMatcher(s1, s2), Len(s1) + Len(s2))

matching_blocks_fitness(s1, s2) ==
    match_to_ratio(BlocksMatcher(s1, s2), s1, s2, FALSE)

(***************************************************************************)
(* long_substr / is_substr / lcs_fitness.                                  *)
(***************************************************************************)
\* find in data, for Python's substring test on strings
Contains(data, find) ==
    \E p \in 0..(Len(data) - Len(find)) :
        \A t \in 1..Len(find) : data[p + t] = find[t]

\* is_substr(find, (s1, s2)): find occurs in every string of the tuple.
is_substr(find, s1, s2) == Contains(s1, find) /\ Contains(s2, find)

\* len(long_substr(s1, s2)): the scan keeps a slice s1[i:i+j] only when j
\* exceeds the length kept so far, so it ends with the greatest such j.
long_substr_len(s1, s2) ==
    IF Len(s1) = 0 THEN 0
    ELSE LET found == {j \in 1..Len(s1) :
                         \E i \in 0..(Len(s1) - j) :
                             is_substr(SubSeq(s1, i + 1, i + j), s1, s2)}
         IN IF found = {} THEN 0
            ELSE CHOOSE j \in found : \A k \in found : k <= j

lcs_fitness(s1, s2) == match_to_ratio(long_substr_len(s1, s2), s1, s2, FALSE)

(***************************************************************************)
(* overlap_fitness: letters in identical positions.                        *)
(***************************************************************************)
OverlapMatcher(a, b) ==
    Cardinality({i \in 1..Min2(Len(a), Len(b)) : a[i] = b[i]})

overlap_fitness(s1, s2) == match_to_ratio(OverlapMatcher(s1, s2), s1, s2, FALSE)

(***************************************************************************)
(* WeaselSimulator.fitness_functions and calc_fitness.                     *)
(***************************************************************************)
fitness_functions(name, s1, s2) ==
    CASE name = "levenshtein" -> levenshtein_fitness(s1, s2)
      [] name = "sequence" -> sequence_matcher_fitness(s1, s2)
      [] name = "blocks" -> matching_blocks_fitness(s1, s2)
      [] name = "lcs" -> lcs_fitness(s1, s2)
      [] name = "overlap" -> overlap_fitness(s1, s2)

RECURSIVE SumFitness(_, _, _, _)
SumFitness(funcs, k, s1, s2) ==
    IF k > Len(funcs) THEN Zero
    ELSE RatAdd(fitness_functions(funcs[k], s1, s2), SumFitness(funcs, k + 1, s1, s2))

\* calc_fitness without the division: the sum of the metrics.
CalcFitnessSum(funcs, target, candidate) == SumFitness(funcs, 1, target, candidate)

\* sum([func(target, candidate) for func in self.fitness]) / len(self.fitness)
CalcFitness(funcs, target, candidate) ==
    RatDivInt(SumFitness(funcs, 1, target, candidate), Len(funcs))


(***************************************************************************)
(* The configurations the model runs: records of the constructor's         *)
(* arguments.  Chances (mutate_chance, rotate_chance) are in percent.  The *)
(* initial argument <<>> is None (or ''), both of which __init__ treats as *)
(* "not supplied".                                                         *)
(***************************************************************************)
AB == <<"A", "B">>

\* The selection loop: targets, alphabets (one holding every target
\* character, one missing "A", one empty), numbers of children, mutation
\* chances and initial phrases (none, the target, one of the target's length
\* with a character of no alphabet, one too short), without rotation.
CoreConfigs ==
    [target : {<<>>, AB},
     characters : {AB, <<"X", "B">>, <<>>},
     num_children : 0..MaxChildren,
     mutate_chance : {0, 50, 100},
     initial : {<<>>, AB, <<"B", "Y">>, <<"B">>},
     fitness : {<<"overlap">>},
     rotate_chance : {0},
     rotate_bound : {5},
     sync_rotate : {FALSE}]

\* Every metric, and two means of metrics, on targets of two and three
\* characters.
MetricConfigs ==
    [target : {AB, <<"A", "B", "A">>},
     characters : {AB},
     num_children : {2},
     mutate_chance : {50},
     initial : {<<>>},
     fitness : {<<"levenshtein">>, <<"sequence">>, <<"blocks">>, <<"lcs">>,
                <<"overlap">>, <<"levenshtein", "overlap">>,
                <<"levenshtein", "sequence", "blocks", "lcs", "overlap">>},
     rotate_chance : {0},
     rotate_bound : {5},
     sync_rotate : {FALSE}]

\* Rotation alone, synchronized and independent: the rotate_bound is negative,
\* below and above the greatest r, and the initial phrase is random or
\* shorter than the target.
RotationConfigs ==
    [target : {<<>>, <<"A", "B", "A">>},
     characters : {AB},
     num_children : {0, 2},
     mutate_chance : {0},
     initial : {<<>>, <<"B">>},
     fitness : {<<"lcs">>},
     rotate_chance : {50, 100},
     rotate_bound : {-1, 1, 5},
     sync_rotate : BOOLEAN]

\* Rotation with mutation, from an initial phrase that is a rotation of the
\* target.
MutatedRotationConfigs ==
    [target : {<<"A", "B", "A">>},
     characters : {AB},
     num_children : {2},
     mutate_chance : {50},
     initial : {<<"B", "A", "A">>},
     fitness : {<<"lcs">>},
     rotate_chance : {50},
     rotate_bound : {1, 5},
     sync_rotate : BOOLEAN]

Configs == CoreConfigs \cup MetricConfigs \cup RotationConfigs \cup MutatedRotationConfigs

(***************************************************************************)
(* State.                                                                  *)
(***************************************************************************)
VARIABLES
    target_phrase,      \* self.target_phrase
    characters,         \* self.characters
    num_children,       \* self.num_children
    mutate_chance,      \* self.mutate_chance, in percent
    initial_arg,        \* the initial_phrase argument of __init__
    initial_phrase,     \* self.initial_phrase
    fitness,            \* self.fitness_names (self.fitness holds their functions)
    rotate_chance,      \* self.rotate_chance, in percent
    rotate_bound,       \* self.rotate_bound
    sync_rotate,        \* self.sync_rotate
    generation,         \* self.generation
    best_candidate,     \* self.best_candidate
    current_fitness,    \* self.current_fitness
    pc,                 \* where generations() stands
    parent,             \* generations(): parent
    children_parent,    \* children(): its own (possibly rotated) parent
    candidate,          \* generations(): candidate = (child, fitness)
    kids,               \* the (child, fitness) pairs scored in this generation
    yields,             \* how many times generations() has yielded
    rotation,           \* the latest rotate_maybe call of this generation
    rotate_calls,       \* how many times this generation has called rotate_maybe
    call,               \* the operator applied last, when operators are applied alone
    draws,              \* what self.rand has drawn in this run, when runs are compared
    results,            \* what this run's generations have reported, likewise
    first               \* the draws and results of the run made before this one

config == <<target_phrase, characters, num_children, mutate_chance, initial_arg,
            initial_phrase, fitness, rotate_chance, rotate_bound, sync_rotate>>

\* The simulator: its fields, the locals of generations() and children(), and
\* the record of the rotations.
engine == <<config, generation, best_candidate, current_fitness, pc, parent,
            children_parent, candidate, kids, yields, rotation, rotate_calls>>

\* The record of two runs made with one seed.
twin == <<draws, results, first>>

vars == <<engine, call, twin>>

\* self.phrase_length = len(self.target_phrase)
phrase_length == Len(target_phrase)

\* An operation's outcome: a value, or an exception raised.
Ok(v) == [ok |-> TRUE, val |-> v]

Raise == [ok |-> FALSE, val |-> <<>>]

CharSet(s) == {s[i] : i \in 1..Len(s)}

calc_fitness(target, cand) == CalcFitness(fitness, target, cand)

(***************************************************************************)
(* The random draws.  rand.random() lies in [0.0, 1.0), so flip(p) can     *)
(* answer True only when p > 0 and False only when p < 1.                  *)
(***************************************************************************)
flip(p) == {b \in BOOLEAN : (b => p > 0) /\ (~b => p < 100)}

\* random_string(chars, length): rand.choice raises IndexError on an empty
\* sequence.
random_string(chars, length) ==
    IF length > 0 /\ chars = <<>> THEN {Raise}
    ELSE {Ok(s) : s \in [1..length -> CharSet(chars)]}

\* mutate_letter_maybe drawing from a fixed alphabet instead of
\* self.characters.
mutate_letter_from_default(letter) ==
    (IF TRUE \in flip(mutate_chance) THEN {"A", "B", "X"} ELSE {})
        \cup (IF FALSE \in flip(mutate_chance) THEN {letter} ELSE {})

\* mutate_letter_maybe without the flip: the letter is always drawn anew.
mutate_letter_always(letter) == CharSet(characters)

\* mutate_letter_maybe(letter): the letters it can return
mutate_letter_maybe(letter) ==
    (IF TRUE \in flip(mutate_chance) THEN CharSet(characters) ELSE {})
        \cup (IF FALSE \in flip(mutate_chance) THEN {letter} ELSE {})

\* ''.join(map(self.mutate_letter_maybe, source)): rand.choice raises
\* IndexError when a letter is to mutate and the alphabet is empty.
MutateLetters(source) ==
    LET letters == UNION {mutate_letter_maybe(source[i]) : i \in 1..Len(source)}
    IN {Ok(s) : s \in {t \in [1..Len(source) -> letters] :
                         \A i \in 1..Len(source) : t[i] \in mutate_letter_maybe(source[i])}}
        \cup (IF Len(source) > 0 /\ characters = <<>> /\ TRUE \in flip(mutate_chance)
              THEN {Raise} ELSE {})

\* A rotation that takes the amount without its sign.
RotateByMagnitude(source, amount) ==
    [i \in 1..Len(source) |-> source[((i - 1 - Abs(amount)) % Len(source)) + 1]]

\* collections.deque(source).rotate(amount): amount steps to the right
RotateBy(source, amount) ==
    [i \in 1..Len(source) |-> source[((i - 1 - amount) % Len(source)) + 1]]

\* One call of rotate_maybe(source): whether it rotated, the r it drew with
\* randrange, the amount it drew with randint, which draw raised ("" when
\* none did) and the string it returned.
Rotation(source, rotated, r, amount, raised, val) ==
    [ok |-> raised = "", val |-> val, source |-> source, rotated |-> rotated,
     r |-> r, amount |-> amount, raised |-> raised]

\* No call of rotate_maybe yet.
NoRotation == Rotation(<<>>, FALSE, 0, 0, "", <<>>)

\* rotate(source): randrange(n) raises ValueError when n <= 0, and
\* randint(-bound, bound) when bound < 0.
rotate(source) ==
    IF phrase_length <= 0 THEN {Rotation(source, TRUE, 0, 0, "randrange", <<>>)}
    ELSE UNION {LET bound == Min2(rotate_bound, r)
                IN IF bound < 0 THEN {Rotation(source, TRUE, r, 0, "randint", <<>>)}
                   ELSE {Rotation(source, TRUE, r, amount, "", RotateBy(source, amount))
                         : amount \in (-bound)..bound}
                : r \in 0..(phrase_length - 1)}

rotate_maybe(source) ==
    (IF TRUE \in flip(rotate_chance) THEN rotate(source) ELSE {})
        \cup (IF FALSE \in flip(rotate_chance)
              THEN {Rotation(source, FALSE, 0, 0, "", source)} ELSE {})

\* A child of mutate_copy: the outcome m of its mutation pass and the calls of
\* rotate_maybe made for it.
Child(m, rotations) == [ok |-> m.ok, val |-> m.val, rotations |-> rotations]

\* mutate_copy rotating whatever sync_rotate says.
mutate_copy_rotating(source) ==
    UNION {IF r.ok THEN {Child(m, <<r>>) : m \in MutateLetters(r.val)}
           ELSE {Child(Raise, <<r>>)}
           : r \in rotate_maybe(source)}

mutate_copy(source) ==
    IF ~sync_rotate
    THEN UNION {IF r.ok THEN {Child(m, <<r>>) : m \in MutateLetters(r.val)}
                ELSE {Child(Raise, <<r>>)}
                : r \in rotate_maybe(source)}
    ELSE {Child(m, <<>>) : m \in MutateLetters(source)}

(***************************************************************************)
(* __init__: the state after construction.  When the constructor raises    *)
(* (pc = "init_error") the fields it had not yet assigned hold             *)
(* placeholders.                                                           *)
(***************************************************************************)
InitConfig(c) ==
    \E ip \in (IF c.initial # <<>> THEN {Ok(c.initial)}
               ELSE random_string(c.characters, Len(c.target))) :
      LET fit == IF ip.ok THEN CalcFitness(c.fitness, c.target, ip.val) ELSE <<0, 0>>
      IN /\ target_phrase = c.target
         /\ characters = c.characters
         /\ num_children = c.num_children
         /\ mutate_chance = c.mutate_chance
         /\ initial_arg = c.initial
         /\ initial_phrase = ip.val
         /\ fitness = c.fitness
         /\ rotate_chance = c.rotate_chance
         /\ rotate_bound = c.rotate_bound
         /\ sync_rotate = c.sync_rotate
         /\ generation = 0
         /\ best_candidate = ip.val
         /\ current_fitness = fit
         /\ pc = IF Raised(fit) THEN "init_error" ELSE "loop"
         /\ parent = <<>>
         /\ children_parent = <<>>
         /\ candidate = <<<<>>, Zero>>
         /\ kids = <<>>
         /\ yields = 0
         /\ rotation = NoRotation
         /\ rotate_calls = 0

\* No operator is applied alone while the simulator runs.
NoCall == [op |-> "none"]

\* No run was made before this one.
NoRun == [draws |-> <<>>, results |-> <<>>, made |-> FALSE]

\* A single run, whose draws and results are not kept.
Single == call = NoCall /\ draws = <<>> /\ results = <<>> /\ first = NoRun

Init == (\E c \in Configs : InitConfig(c)) /\ Single

(***************************************************************************)
(* generations().                                                          *)
(***************************************************************************)
\* The loop test of a loop that always runs a first generation.
LoopTestAfterFirst == generation = 0 \/ best_candidate # target_phrase

\* line 203: the test of the while loop
LoopTest == best_candidate # target_phrase

\* The generation count left as it is, and counted twice.
NextGenerationForgotten(g) == g

NextGenerationTwice(g) == g + 2

\* line 206: self.generation += 1
NextGeneration(g) == g + 1

\* lines 203-206: the loop test holds; parent, the children generator (which
\* runs nothing yet) and the generation count, which becomes g.
BeginGenerationTo(g) ==
    /\ pc = "loop"
    /\ LoopTest
    /\ parent' = best_candidate
    /\ children_parent' = best_candidate
    /\ generation' = g
    /\ kids' = <<>>
    /\ rotation' = NoRotation
    /\ rotate_calls' = 0
    /\ pc' = "first"
    /\ UNCHANGED <<config, best_candidate, current_fitness, candidate, yields>>

BeginGeneration ==
    /\ generation < MaxGen
    /\ BeginGenerationTo(NextGeneration(generation))

\* line 203: the loop test fails and the generator ends.
Finish ==
    /\ pc = "loop"
    /\ ~LoopTest
    /\ pc' = "done"
    /\ UNCHANGED <<config, generation, best_candidate, current_fitness, parent,
                   children_parent, candidate, kids, yields, rotation, rotate_calls>>

\* The calls of rotate_maybe a step has made, in order.
RotateCalls(calls) ==
    /\ rotate_calls' = rotate_calls + Len(calls)
    /\ rotation' = IF calls = <<>> THEN rotation ELSE calls[Len(calls)]

\* lines 207-208, with children() run to its first yield: the synchronized
\* rotation of the parent, then the first child.  With no child to yield,
\* children.next() raises StopIteration, which ends generations() as well.
FirstChild ==
    /\ pc = "first"
    /\ \E base \in (IF sync_rotate THEN rotate_maybe(parent) ELSE {Ok(parent)}) :
         LET based == IF sync_rotate THEN <<base>> ELSE <<>>
         IN IF ~base.ok
            THEN /\ pc' = "error"
                 /\ RotateCalls(based)
                 /\ UNCHANGED <<children_parent, candidate, kids>>
            ELSE IF num_children <= 0
            THEN /\ pc' = "stopped"
                 /\ children_parent' = base.val
                 /\ RotateCalls(based)
                 /\ UNCHANGED <<candidate, kids>>
            ELSE \E first_child \in mutate_copy(base.val) :
                   LET dist == calc_fitness(target_phrase, first_child.val)
                   IN /\ children_parent' = base.val
                      /\ RotateCalls(based \o first_child.rotations)
                      /\ IF ~first_child.ok \/ Raised(dist)
                         THEN /\ pc' = "error"
                              /\ UNCHANGED <<candidate, kids>>
                         ELSE /\ candidate' = <<first_child.val, dist>>
                              /\ kids' = <<candidate'>>
                              /\ pc' = "rest"
    /\ UNCHANGED <<config, generation, best_candidate, current_fitness, parent, yields>>

\* The selection with ">=" for ">": a later child that ties displaces the
\* earlier one.
SelectLatest(cand, child, dist) == IF RatLeq(cand[2], dist) THEN <<child, dist>> ELSE cand

\* The candidate after scoring one more child (lines 210-212).
Select(cand, child, dist) == IF RatLt(cand[2], dist) THEN <<child, dist>> ELSE cand

\* lines 209-212: one more turn of "for child in children".
NextChild ==
    /\ pc = "rest"
    /\ Len(kids) < num_children
    /\ \E child \in mutate_copy(children_parent) :
         LET dist == calc_fitness(target_phrase, child.val)
         IN /\ RotateCalls(child.rotations)
            /\ IF ~child.ok \/ Raised(dist)
               THEN /\ pc' = "error"
                    /\ UNCHANGED <<candidate, kids>>
               ELSE /\ candidate' = Select(candidate, child.val, dist)
                    /\ kids' = Append(kids, <<child.val, dist>>)
                    /\ pc' = "rest"
    /\ UNCHANGED <<config, generation, best_candidate, current_fitness, parent,
                   children_parent, yields>>

\* The replacement test reversed, without a test, and with ">" for ">=".
AdoptsWorse(cand, cur) == RatLeq(cand[2], cur)

AdoptsAlways(cand, cur) == TRUE

AdoptsOnlyBetter(cand, cur) == RatLt(cur, cand[2])

\* Whether the generation's candidate replaces the parent (line 216).
Adopts(cand, cur) == RatLeq(cur, cand[2])

\* lines 213-220: the children are exhausted; replace the parent or not, and
\* yield for the y-th time.
UpdateTo(y) ==
    /\ pc = "rest"
    /\ Len(kids) >= num_children
    /\ IF Adopts(candidate, current_fitness)
       THEN /\ best_candidate' = candidate[1]
            /\ current_fitness' = candidate[2]
       ELSE UNCHANGED <<best_candidate, current_fitness>>
    /\ yields' = y
    /\ pc' = "loop"
    /\ UNCHANGED <<config, generation, parent, children_parent, candidate, kids,
                   rotation, rotate_calls>>

Update == UpdateTo(yields + 1)

\* main() constructs a simulator and iterates its generations(); no operator
\* is applied on its own.
Next ==
    \/ BeginGeneration /\ UNCHANGED <<call, twin>>
    \/ Finish /\ UNCHANGED <<call, twin>>
    \/ FirstChild /\ UNCHANGED <<call, twin>>
    \/ NextChild /\ UNCHANGED <<call, twin>>
    \/ Update /\ UNCHANGED <<call, twin>>

Spec == Init /\ [][Next]_vars

(***************************************************************************)
(* The same engine for runs without end: main() keeps pulling generations, *)
(* so the two counters, which decide nothing, stop counting at MaxGen      *)
(* ("MaxGen or more").  The random draws are fair: a first child equal to  *)
(* the target, when it can be drawn again and again, is eventually drawn.  *)
(***************************************************************************)
LiveInit == (\E c \in CoreConfigs : InitConfig(c)) /\ Single

LiveBeginGeneration == BeginGenerationTo(Min2(NextGeneration(generation), MaxGen))

LiveUpdate == UpdateTo(Min2(yields + 1, MaxGen))

LiveNext ==
    \/ LiveBeginGeneration /\ UNCHANGED <<call, twin>>
    \/ Finish /\ UNCHANGED <<call, twin>>
    \/ FirstChild /\ UNCHANGED <<call, twin>>
    \/ NextChild /\ UNCHANGED <<call, twin>>
    \/ LiveUpdate /\ UNCHANGED <<call, twin>>

DrawTarget ==
    /\ FirstChild
    /\ UNCHANGED <<call, twin>>
    /\ pc' = "rest"
    /\ candidate'[1] = target_phrase

LiveSpec == LiveInit /\ [][LiveNext]_vars /\ WF_vars(LiveNext) /\ SF_vars(DrawTarget)

(***************************************************************************)
(* The operators applied alone, as a caller of the module can apply them:  *)
(* a simulator is constructed (its alphabet and mutate_chance are what the *)
(* mutation pass reads) and stays as it is, and call records the           *)
(* application: one operator on one input, and for a rotation the rotation *)
(* back.                                                                   *)
(***************************************************************************)
Strings == UNION {[1..n -> {"A", "B"}] : n \in 0..MaxLen}

OperatorConfigs ==
    [target : {AB},
     characters : {AB, <<"X", "B">>, <<>>},
     num_children : {1},
     mutate_chance : {0, 50, 100},
     initial : {AB},
     fitness : {<<"overlap">>},
     rotate_chance : {0},
     rotate_bound : {5},
     sync_rotate : {FALSE}]

OperatorInit == (\E c \in OperatorConfigs : InitConfig(c)) /\ Single

\* lines 186-188 for a given amount: d = deque(source); d.rotate(amount);
\* ''.join(d)
CallRotate ==
    /\ call = NoCall
    /\ \E s \in Strings, k \in (-MaxShift)..MaxShift :
         call' = [op |-> "rotate", source |-> s, amount |-> k,
                  val |-> RotateBy(s, k), origin |-> s]
    /\ UNCHANGED <<engine, twin>>

\* The same on the string just rotated, by the opposite amount.
CallRotateBack ==
    /\ call.op = "rotate"
    /\ call' = [op |-> "rotate_back", source |-> call.val, amount |-> -call.amount,
                val |-> RotateBy(call.val, -call.amount), origin |-> call.source]
    /\ UNCHANGED <<engine, twin>>

\* line 194: ''.join(map(self.mutate_letter_maybe, source))
CallMutate ==
    /\ call = NoCall
    /\ \E s \in Strings :
         \E m \in MutateLetters(s) :
           call' = [op |-> "mutate", source |-> s, ok |-> m.ok, val |-> m.val]
    /\ UNCHANGED <<engine, twin>>

\* levenshtein_fitness(s1, s2)
CallLevenshteinFitness ==
    /\ call = NoCall
    /\ \E s1 \in Strings, s2 \in Strings :
         call' = [op |-> "levenshtein_fitness", s1 |-> s1, s2 |-> s2,
                  val |-> levenshtein_fitness(s1, s2)]
    /\ UNCHANGED <<engine, twin>>

OperatorNext == CallRotate \/ CallRotateBack \/ CallMutate \/ CallLevenshteinFitness

OperatorSpec == OperatorInit /\ [][OperatorNext]_vars

(***************************************************************************)
(* Two runs with one seed.  self.rand = random.Random(seed) is the only    *)
(* generator the simulator draws from (lines 128, 135, 168, 175, 184,      *)
(* 185), so a second run with the same arguments is handed, call by call,  *)
(* what the first run was handed: the initial phrase of random_string,     *)
(* each call of rotate_maybe with its r and amount, each child of the      *)
(* mutation pass.  draws keeps them in call order and results keeps what   *)
(* each generation reports at its yield; when the first run has ended (or  *)
(* has run MaxGen generations) the simulator is constructed again and the  *)
(* second run is made.                                                     *)
(***************************************************************************)
\* Mutation alone with two children, rotation alone in both modes, and both
\* together with one child, from a random initial phrase.
SeededConfigs ==
    [target : {AB}, characters : {AB}, num_children : {2}, mutate_chance : {50},
     initial : {<<>>}, fitness : {<<"overlap">>}, rotate_chance : {0},
     rotate_bound : {1}, sync_rotate : {FALSE}]
    \cup
    [target : {AB}, characters : {AB}, num_children : {1}, mutate_chance : {0},
     initial : {<<>>}, fitness : {<<"overlap">>}, rotate_chance : {50},
     rotate_bound : {1}, sync_rotate : BOOLEAN]
    \cup
    [target : {AB}, characters : {AB}, num_children : {1}, mutate_chance : {50},
     initial : {<<>>}, fitness : {<<"overlap">>}, rotate_chance : {100},
     rotate_bound : {1}, sync_rotate : {TRUE}]

\* A generator seeded otherwise (or the module's own random, the default of
\* random_string's rand): it may hand out any of the outcomes.
OtherSeed(outcomes, recorded) == outcomes

\* The outcome of a draw of self.rand in a run whose seed is that of a run
\* where the same draw gave recorded.
SameSeed(outcomes, recorded) == outcomes \cap {recorded}

\* The draw of the constructor: the initial phrase, when none is supplied.
InitialDraws ==
    IF initial_arg # <<>> THEN <<>>
    ELSE <<CHOOSE ip \in random_string(characters, phrase_length) :
               ip.val = initial_phrase>>

SeededInit ==
    /\ \E c \in SeededConfigs : InitConfig(c)
    /\ call = NoCall
    /\ draws = InitialDraws
    /\ results = <<>>
    /\ first = NoRun

\* What a step that produces a child draws: its call of rotate_maybe, if it
\* makes one, and the child its mutation pass returns, if it returns.
StepDraws ==
    [rotation |-> IF rotate_calls' > rotate_calls THEN <<rotation'>> ELSE <<>>,
     child |-> IF Len(kids') > Len(kids) THEN <<kids'[Len(kids')][1]>> ELSE <<>>]

\* The step draws d: in the second run only what the first run drew at the
\* same place.
Drawn(d) ==
    /\ first.made =>
           /\ Len(draws) < Len(first.draws)
           /\ d \in SameSeed({d}, first.draws[Len(draws) + 1])
    /\ draws' = Append(draws, d)

\* What a generation reports (lines 213-214 and print_generation).
Result ==
    [generation |-> generation, child |-> candidate[1], fitness |-> candidate[2],
     best |-> best_candidate', current |-> current_fitness']

\* The run is over, or has run its MaxGen generations.
Ended ==
    \/ pc \in {"done", "stopped", "error", "init_error"}
    \/ pc = "loop" /\ LoopTest /\ generation >= MaxGen

\* main() again with the same arguments, the seed included: __init__ as in
\* InitConfig, the first run's draws and results set aside.
Rerun ==
    /\ ~first.made
    /\ Ended
    /\ first' = [draws |-> draws, results |-> results, made |-> TRUE]
    /\ \E ip \in (IF initial_arg # <<>> THEN {Ok(initial_arg)}
                  ELSE SameSeed(random_string(characters, phrase_length), draws[1])) :
         LET fit == IF ip.ok THEN calc_fitness(target_phrase, ip.val) ELSE <<0, 0>>
         IN /\ initial_phrase' = ip.val
            /\ generation' = 0
            /\ best_candidate' = ip.val
            /\ current_fitness' = fit
            /\ pc' = IF Raised(fit) THEN "init_error" ELSE "loop"
            /\ draws' = IF initial_arg # <<>> THEN <<>> ELSE <<ip>>
    /\ parent' = <<>>
    /\ children_parent' = <<>>
    /\ candidate' = <<<<>>, Zero>>
    /\ kids' = <<>>
    /\ yields' = 0
    /\ rotation' = NoRotation
    /\ rotate_calls' = 0
    /\ results' = <<>>
    /\ UNCHANGED <<target_phrase, characters, num_children, mutate_chance, initial_arg,
                   fitness, rotate_chance, rotate_bound, sync_rotate, call>>

SeededNext ==
    \/ BeginGeneration /\ UNCHANGED <<call, twin>>
    \/ Finish /\ UNCHANGED <<call, twin>>
    \/ FirstChild /\ Drawn(StepDraws) /\ UNCHANGED <<call, results, first>>
    \/ NextChild /\ Drawn(StepDraws) /\ UNCHANGED <<call, results, first>>
    \/ Update /\ results' = Append(results, Result) /\ UNCHANGED <<call, draws, first>>
    \/ Rerun

SeededSpec == SeededInit /\ [][SeededNext]_vars

(***************************************************************************)
(* Properties.                                                             *)
(***************************************************************************)
Constructed == pc # "init_error"

\* The k-th child scored in the current generation and its fitness.
Kid(k) == kids[k][1]

KidFitness(k) == kids[k][2]

\* C1: across the generations of one run current_fitness never decreases:
\* after every step it is >= what it was before the step, whatever children
\* the draws produce.
C1_FitnessNeverDecreases == [][RatLeq(current_fitness, current_fitness')]_vars

\* A generation has ended whose selected child scored below current_fitness.
C1_Witness ==
    /\ pc = "loop"
    /\ yields > 0
    /\ RatLt(candidate[2], current_fitness)

\* C2: with num_children >= 1 the generator ends exactly when best_candidate
\* equals target_phrase: it has ended only with the two equal (after zero
\* generations when the initial phrase was already the target), at the loop
\* test it ends if and only if they are equal, and then without starting a
\* generation.
C2_EndsExactlyOnMatch ==
    /\ [](num_children >= 1 =>
            /\ pc # "stopped"
            /\ pc = "done" => best_candidate = target_phrase
            /\ pc = "done" /\ initial_phrase = target_phrase => generation = 0)
    /\ [][num_children >= 1 /\ pc = "loop" =>
            /\ pc' = "done" <=> best_candidate = target_phrase
            /\ best_candidate = target_phrase => generation' = generation]_vars

\* The generator has ended after at least one generation.
C2_Witness ==
    /\ num_children >= 1
    /\ pc = "done"
    /\ generation > 0

\* C3: in every state, the one built from a supplied initial phrase included,
\* best_candidate and every child scored have the length of target_phrase.
C3_CandidateLengthIsTargetLength ==
    Constructed =>
        /\ Len(best_candidate) = Len(target_phrase)
        /\ \A k \in 1..Len(kids) : Len(Kid(k)) = Len(target_phrase)

\* C4: at the end of a generation the selected child replaces the parent if
\* and only if its fitness is >= current_fitness: then best_candidate and
\* current_fitness become the child and its fitness, otherwise both stay.
C4_ReplacesIffAtLeastAsFit ==
    [][pc = "rest" /\ pc' = "loop" =>
          IF RatLeq(current_fitness, candidate[2])
          THEN best_candidate' = candidate[1] /\ current_fitness' = candidate[2]
          ELSE best_candidate' = best_candidate /\ current_fitness' = current_fitness]_vars

\* With num_children = 1, the single child tied with its parent, differs from
\* it, and has replaced it.
C4_Witness ==
    /\ num_children = 1
    /\ pc = "loop"
    /\ yields > 0
    /\ best_candidate = candidate[1]
    /\ best_candidate # parent
    /\ candidate[2] = calc_fitness(target_phrase, parent)

\* C5: the selected child has the greatest fitness of the children scored so
\* far in its generation and is the first of them to have it.
C5_FirstOfTheFittest ==
    pc \in {"rest", "loop"} /\ Len(kids) > 0 =>
        \E k \in 1..Len(kids) :
            /\ candidate = kids[k]
            /\ \A j \in 1..Len(kids) : RatLeq(KidFitness(j), KidFitness(k))
            /\ \A j \in 1..(k - 1) : RatLt(KidFitness(j), KidFitness(k))

\* Two different children tied for the greatest fitness; the first is selected.
C5_Witness ==
    /\ pc = "rest"
    /\ Len(kids) = 2
    /\ Kid(1) # Kid(2)
    /\ KidFitness(1) = KidFitness(2)
    /\ candidate = kids[1]

\* C6, as stated: generation, best_candidate and current_fitness change only
\* at the end of a generation, after all its children have been scored, and
\* only when the selected child scores >= current_fitness.
C6_StateChangesOnlyOnAdoption ==
    [][(generation' # generation \/ best_candidate' # best_candidate
            \/ current_fitness' # current_fitness) =>
          /\ pc = "rest"
          /\ Len(kids) >= num_children
          /\ RatLeq(current_fitness, candidate[2])]_vars

\* C6, amended: best_candidate and current_fitness change only at the end of
\* a generation, after all its children have been scored, and only when the
\* selected child scores >= current_fitness; generation changes only at the
\* start of a generation, before any child is scored, and then by one.
C6_CandidateChangesOnlyOnAdoption ==
    [][/\ (best_candidate' # best_candidate \/ current_fitness' # current_fitness) =>
             /\ pc = "rest"
             /\ Len(kids) >= num_children
             /\ RatLeq(current_fitness, candidate[2])
       /\ generation' # generation =>
             /\ pc = "loop"
             /\ kids' = <<>>
             /\ generation' = generation + 1
             /\ best_candidate' = best_candidate
             /\ current_fitness' = current_fitness]_vars

\* A second generation has been counted before any of its children is scored,
\* after a first one whose selected child was not adopted.
C6_Witness ==
    /\ pc = "first"
    /\ generation = 2
    /\ kids = <<>>
    /\ RatLt(candidate[2], current_fitness)

\* C7: generation is 0 after construction and counts the generations: it
\* equals the number of generations reported whenever one has just been
\* reported or the generator has ended, and is one more while a generation is
\* under way (or was cut short by an exception), adopted child or not.
C7_GenerationCountsGenerations ==
    Constructed =>
        /\ pc \in {"loop", "done"} => generation = yields
        /\ pc \in {"first", "rest", "error", "stopped"} => generation = yields + 1
        /\ yields = 0 /\ pc = "loop" => generation = 0

\* Two generations have been reported, the second without adopting its child.
C7_Witness ==
    /\ pc = "loop"
    /\ yields = 2
    /\ generation = 2
    /\ best_candidate = parent
    /\ RatLt(candidate[2], current_fitness)

\* C8: under every configured metric and mean of metrics, current_fitness
\* and the fitness of every child lie in [0, 1], and for a candidate of the
\* target's non-zero length the fitness is 1 if and only if the candidate is
\* the target; right after construction with a non-empty target this is
\* checked for every string of the target's length over ProbeChars.
ProbeChars == {"A", "B", "X"}

InUnit(f) == ~Raised(f) /\ RatLeq(Zero, f) /\ RatLeq(f, One)

ExactIffEqual(cand, f) ==
    Len(cand) = Len(target_phrase) /\ Len(cand) > 0 =>
        (f = One <=> cand = target_phrase)

C8_FitnessInUnitInterval ==
    Constructed =>
        /\ InUnit(current_fitness)
        /\ ExactIffEqual(best_candidate, current_fitness)
        /\ \A k \in 1..Len(kids) :
               InUnit(KidFitness(k)) /\ ExactIffEqual(Kid(k), KidFitness(k))
        /\ generation = 0 /\ pc = "loop" /\ Len(target_phrase) > 0 =>
               \A cand \in [1..Len(target_phrase) -> ProbeChars] :
                   /\ InUnit(calc_fitness(target_phrase, cand))
                   /\ ExactIffEqual(cand, calc_fitness(target_phrase, cand))

\* Under the mean of the five metrics the target has been reached, in a
\* generation that also scored a different child strictly between 0 and 1.
C8_Witness ==
    /\ Len(fitness) = 5
    /\ pc = "loop"
    /\ yields > 0
    /\ best_candidate = target_phrase
    /\ current_fitness = One
    /\ \E k \in 1..Len(kids) :
           /\ Kid(k) # target_phrase
           /\ RatLt(Zero, KidFitness(k))
           /\ RatLt(KidFitness(k), One)

\* C9: when every character of the target occurs in the alphabet,
\* num_children >= 1 and mutate_chance > 0, the run eventually ends with
\* best_candidate = target_phrase (under LiveSpec's fairness of the draws).
C9_EventuallyReachesTarget ==
    [](/\ CharSet(target_phrase) \subseteq CharSet(characters)
       /\ num_children >= 1
       /\ mutate_chance > 0
       => <>(pc = "done" /\ best_candidate = target_phrase))

\* C10: when the initial phrase is drawn at random, every character of
\* best_candidate (and of every child scored) is in the alphabet; so when the
\* target holds a character that is not, best_candidate never equals the
\* target and the loop never reaches its end.
C10_CandidateStaysInAlphabet ==
    Constructed /\ initial_arg = <<>> =>
        /\ CharSet(best_candidate) \subseteq CharSet(characters)
        /\ \A k \in 1..Len(kids) : CharSet(Kid(k)) \subseteq CharSet(characters)
        /\ ~(CharSet(target_phrase) \subseteq CharSet(characters)) =>
               best_candidate # target_phrase /\ pc # "done"

\* With a target character missing from the alphabet, two generations have
\* run from a random initial phrase and the best candidate has changed.
C10_Witness ==
    /\ initial_arg = <<>>
    /\ ~(CharSet(target_phrase) \subseteq CharSet(characters))
    /\ pc = "loop"
    /\ yields = 2
    /\ best_candidate # initial_phrase

\* C11: a configuration with num_children < 1, a mutate_chance or rotate_chance
\* outside [0, 1], an empty alphabet or a target character that the alphabet
\* lacks is rejected by the constructor: no simulator is ever constructed with
\* it, so no generation starts with it.
InvalidConfig ==
    \/ num_children < 1
    \/ mutate_chance \notin 0..100
    \/ rotate_chance \notin 0..100
    \/ characters = <<>>
    \/ ~(CharSet(target_phrase) \subseteq CharSet(characters))

C11_InvalidConfigRejected == InvalidConfig => ~Constructed

\* C12: for an empty target and the empty initial phrase drawn for it the
\* constructor raises nothing, every configured metric scores the two empty
\* strings 1 and current_fitness is 1.
C12_EmptyStringsScoreOne ==
    target_phrase = <<>> /\ initial_arg = <<>> =>
        /\ Constructed
        /\ \A i \in 1..Len(fitness) : fitness_functions(fitness[i], <<>>, <<>>) = One
        /\ current_fitness = One

\* C13: with sync_rotate, rotate_maybe is called exactly once in a generation,
\* on the parent and before the first child, and every child of the
\* generation is a per-character mutation of the string that call returned;
\* without it, rotate_maybe is called exactly once for each child, on the
\* parent, which stays as it was, and the child is a per-character mutation of
\* the string its call returned.
C13_RotationOncePerGenerationOrChild ==
    Constructed =>
        IF sync_rotate
        THEN /\ rotate_calls = IF generation = 0 \/ pc = "first" THEN 0 ELSE 1
             /\ Len(kids) > 0 =>
                    /\ rotation.source = parent
                    /\ children_parent = rotation.val
                    /\ \A k \in 1..Len(kids) : Ok(Kid(k)) \in MutateLetters(children_parent)
        ELSE /\ rotate_calls = Len(kids) + (IF pc = "error" THEN 1 ELSE 0)
             /\ children_parent = parent
             /\ Len(kids) > 0 /\ pc # "error" =>
                    /\ rotation.source = parent
                    /\ Ok(Kid(Len(kids))) \in MutateLetters(rotation.val)

\* A synchronized generation has ended whose one rotation changed the parent:
\* without mutation, both children are the rotated parent.
C13_Witness ==
    /\ sync_rotate
    /\ mutate_chance = 0
    /\ pc = "loop"
    /\ yields > 0
    /\ rotation.rotated
    /\ rotation.amount # 0
    /\ children_parent # parent
    /\ Len(kids) = 2
    /\ Kid(1) = children_parent
    /\ Kid(2) = children_parent

\* C14: deque.rotate as rotate() uses it is a circular shift that keeps the
\* length: for every string s and amount k the result has the length of s and
\* is s cut in two with the halves swapped, and rotating the result by -k
\* gives s again.
C14_RotationRestores ==
    /\ call.op \in {"rotate", "rotate_back"} =>
           /\ Len(call.val) = Len(call.source)
           /\ \E j \in 0..Len(call.source) :
                  call.val = SubSeq(call.source, j + 1, Len(call.source))
                                 \o SubSeq(call.source, 1, j)
    /\ call.op = "rotate" /\ call.amount = 1 /\ Len(call.source) > 0 =>
           call.val[1] = call.source[Len(call.source)]
    /\ call.op = "rotate_back" => call.val = call.origin

\* A string of three characters has been rotated by an amount that changed
\* it, and then back.
C14_Witness ==
    /\ call.op = "rotate_back"
    /\ Len(call.origin) = 3
    /\ call.source # call.origin
    /\ call.amount \notin {0, 3, -3}
    /\ call.val = call.origin

\* C15: the per-character mutation pass with mutate_chance 0 returns its
\* input, whatever the input and the alphabet; with any mutate_chance a string
\* it returns has the length of the input and, at each position, the input's
\* character or a character of the alphabet.
C15_MutationKeepsLengthAndAlphabet ==
    call.op = "mutate" =>
        /\ mutate_chance = 0 => call.ok /\ call.val = call.source
        /\ call.ok =>
               /\ Len(call.val) = Len(call.source)
               /\ \A i \in 1..Len(call.source) :
                      \/ call.val[i] = call.source[i]
                      \/ call.val[i] \in CharSet(characters)

\* With mutate_chance 0.5 one character that the alphabet lacks was kept and
\* another was replaced by a character of the alphabet.
C15_Witness ==
    /\ call.op = "mutate"
    /\ call.ok
    /\ mutate_chance = 50
    /\ \E i \in 1..Len(call.source) :
           call.val[i] = call.source[i] /\ call.val[i] \notin CharSet(characters)
    /\ \E i \in 1..Len(call.source) :
           call.val[i] # call.source[i] /\ call.val[i] \in CharSet(characters)

\* C16: for all strings a and b, levenshtein_fitness(a, a) is 1 and
\* levenshtein_fitness(a, b) = levenshtein_fitness(b, a), the fitness being
\* 1 - levenshtein(a, b) / max(len(a), len(b)).
C16_LevenshteinFitnessSymmetric ==
    call.op = "levenshtein_fitness" =>
        /\ ~Raised(call.val)
        /\ call.s1 = call.s2 => call.val = One
        /\ call.val = levenshtein_fitness(call.s2, call.s1)
        /\ RatAdd(call.val, Rat(levenshtein(call.s1, call.s2),
                                Max2(Len(call.s1), Len(call.s2)))) = One

\* C18: whenever rotate() has shifted a source, the amount lies in
\* [-bound, bound] with bound = min(rotate_bound, r) and r in 0..len(source),
\* so |amount| <= rotate_bound and |amount| <= len(source); and with
\* rotate_bound >= 0 the draw of the amount does not raise.
C18_ShiftWithinBounds ==
    rotation.rotated =>
        /\ rotate_bound >= 0 => rotation.raised # "randint"
        /\ rotation.ok =>
               /\ rotation.r \in 0..Len(rotation.source)
               /\ Abs(rotation.amount) <= Min2(rotate_bound, rotation.r)
               /\ Abs(rotation.amount) <= rotate_bound
               /\ Abs(rotation.amount) <= Len(rotation.source)

\* C19: in every state of a constructed simulator current_fitness is the
\* arithmetic mean of the configured metrics on (target_phrase,
\* best_candidate): the sum of their values divided by their number; and a
\* step that changes best_candidate or current_fitness sets both, to the
\* selected child and its fitness.
C19_FitnessIsMeanOfMetrics ==
    /\ [](Constructed =>
            LET total == SumFitness(fitness, 1, target_phrase, best_candidate)
            IN /\ ~Raised(total)
               /\ current_fitness = Rat(total[1], total[2] * Len(fitness)))
    /\ [][best_candidate' # best_candidate \/ current_fitness' # current_fitness =>
            <<best_candidate', current_fitness'>> = candidate]_vars

\* Under the mean of the five metrics a child that is not the target has been
\* adopted, and one of the metrics scores it differently from the mean.
C19_Witness ==
    /\ Len(fitness) = 5
    /\ pc = "loop"
    /\ yields > 0
    /\ best_candidate = candidate[1]
    /\ best_candidate # parent
    /\ best_candidate # target_phrase
    /\ \E i \in 1..Len(fitness) :
           fitness_functions(fitness[i], target_phrase, best_candidate) # current_fitness

=============================================================================
